---- MODULE Spec2Model ----
(***************************************************************************)
(* parmenides-lib: the arena-based project graph (Workspace), the          *)
(* declaration resolver (WorkspaceDeclaration::build_workspace) and the    *)
(* affected-marking traversal (Workspace::mark_project_as_affected).       *)
(*                                                                         *)
(* A ProjectId is a natural number, the 0-based index of the project in    *)
(* the arena: the project with id i is arena[i + 1].  A path is a member   *)
(* of Paths.  Option<Vec<_>> is a record [some, ids]: None is              *)
(* [some |-> FALSE, ids |-> << >>] and Some(v) is [some |-> TRUE,          *)
(* ids |-> v].                                                             *)
(***************************************************************************)
EXTENDS Integers, Sequences, FiniteSets, TLC

\* Number of distinct project paths.
MaxPaths == 3
\* Number of direct Workspace::add_project calls in one run of Spec.
MaxCalls == 3
\* Total number of dependency ids handed to the direct Workspace::add_project
\* calls of one run of Spec.
MaxDepIds == 2
\* Total number of dependency paths in one declaration set.
MaxDepEntries == 2

\* Number of projects of a store handed to the marking loop in SpecMark.
MaxStore == 2
\* Total number of entries of the dependents lists of such a store.
MaxBackEdges == 2

Paths == 1 .. MaxPaths

\* The ids a caller may pass: every arena slot a run can fill, and MaxPaths,
\* which never denotes a slot (no two projects of the arena share a path).
Ids == 0 .. MaxPaths

VARIABLES
    arena,      \* Workspace.arena: Vec<Project>
    hash,       \* Workspace.hash: HashMap<PathBuf, ProjectId>
    last,       \* the last call made on the workspace, with its return value
    added,      \* path -> id returned by the successful add_project of that path
    calls,      \* number of direct add_project calls made
    entries,    \* dependency ids handed to direct add_project calls so far
    marks,      \* ids on which mark_project_as_affected returned Ok
    decls,      \* WorkspaceDeclaration.projects: HashMap<PathBuf, ProjectDeclaration>
    pending,    \* keys of decls the loop of build_workspace has not visited yet
    build,      \* build_workspace: position in the loop and return value
    loop        \* mark_project_as_affected run step by step: its stack and result

vars == <<arena, hash, last, added, calls, entries, marks, decls, pending, build,
          loop>>

\* The sequences over S of length at most n.
RECURSIVE SeqsUpTo(_, _)
SeqsUpTo(S, n) ==
    IF n = 0
    THEN {<< >>}
    ELSE LET shorter == SeqsUpTo(S, n - 1)
         IN  shorter \cup {Append(s, x) : s \in {t \in shorter : Len(t) = n - 1}, x \in S}

----------------------------------------------------------------------------
\* project.rs

None == [some |-> FALSE, ids |-> << >>]

Some(v) == [some |-> TRUE, ids |-> v]

\* Project::new
Project_new(path, name, dependencies) ==
    [path |-> path, name |-> name, dependencies |-> dependencies,
     dependents |-> << >>, affected |-> FALSE]

\* add_dependent that drops the id.
add_dependent_lost(project, id) == project

\* Project::add_dependent
add_dependent(project, id) ==
    [project EXCEPT !.dependents = Append(@, id)]

\* The name a project at path p is given (names are not unique).
NameOf(p) == IF p % 2 = 1 THEN "core" ELSE "dependent"

----------------------------------------------------------------------------
\* errors.rs

Ok(id) == [ok |-> TRUE, kind |-> "Ok", id |-> id]

PathAlreadyAdded(id) == [ok |-> FALSE, kind |-> "PathAlreadyAdded", id |-> id]

DepedencyNotFound(id) == [ok |-> FALSE, kind |-> "DepedencyNotFound", id |-> id]

ProjectNotFound(id) == [ok |-> FALSE, kind |-> "ProjectNotFound", id |-> id]

----------------------------------------------------------------------------
\* workspace.rs

\* Workspace::new
Workspace_new == [arena |-> << >>, hash |-> << >>]

\* HashMap::insert: the entry of key k is set to v, whether or not k was there.
HashInsert(h, k, v) ==
    [x \in (DOMAIN h) \cup {k} |-> IF x = k THEN v ELSE h[x]]

\* Workspace::len
len(ws) == Len(ws.arena)

\* Workspace::get_id_by_path: Some(id) is <<id>>, None is << >>.
get_id_by_path(ws, path) ==
    IF path \in DOMAIN ws.hash THEN <<ws.hash[path]>> ELSE << >>

\* Workspace::get_project: Some(project) is <<project>>, None is << >>.
get_project(ws, id) ==
    IF id < Len(ws.arena) THEN <<ws.arena[id + 1]>> ELSE << >>

\* Workspace::get_project_by_path
get_project_by_path(ws, path) ==
    IF get_id_by_path(ws, path) = << >>
    THEN << >>
    ELSE get_project(ws, get_id_by_path(ws, path)[1])

\* RegisterDependent with the bound of the slot check off by one: the id the
\* project being added is about to get passes for a slot.
RegisterDependent_OffByOne(ar, dependency, id) ==
    IF dependency < Len(ar)
    THEN [arena |-> [ar EXCEPT ![dependency + 1] = add_dependent(@, id)],
          res |-> Ok(id)]
    ELSE IF dependency = Len(ar)
    THEN [arena |-> ar, res |-> Ok(id)]
    ELSE [arena |-> ar, res |-> DepedencyNotFound(dependency)]

\* One iteration of the loop over the dependencies in add_project: the arena
\* slot of `dependency` gets `id` appended to its dependents; a dependency
\* that denotes no slot ends the call with DepedencyNotFound.
RegisterDependent(ar, dependency, id) ==
    IF dependency < Len(ar)
    THEN [arena |-> [ar EXCEPT ![dependency + 1] = add_dependent(@, id)],
          res |-> Ok(id)]
    ELSE [arena |-> ar, res |-> DepedencyNotFound(dependency)]

\* The loop `for dependency in dependencies` of add_project, from index i on.
\* The `?` returns at the first dependency that is not found, and keeps the
\* dependents appended before it.
RECURSIVE RegisterDependents(_, _, _, _)
RegisterDependents(ar, dependencies, i, id) ==
    IF i > Len(dependencies)
    THEN [arena |-> ar, res |-> Ok(id)]
    ELSE LET r == RegisterDependent(ar, dependencies[i], id)
         IN  IF r.res.ok
             THEN RegisterDependents(r.arena, dependencies, i + 1, id)
             ELSE r

\* add_project that takes the new id from the size of the index, not of
\* the arena.
add_project_IdFromIndex(ws, project) ==
    LET id == Cardinality(DOMAIN ws.hash)
        inserted == HashInsert(ws.hash, project.path, id)
    IN  IF project.path \in DOMAIN ws.hash
        THEN [ws |-> [arena |-> ws.arena, hash |-> inserted],
              res |-> PathAlreadyAdded(ws.hash[project.path])]
        ELSE LET r == RegisterDependents(ws.arena, project.dependencies.ids, 1, id)
             IN  IF r.res.ok
                 THEN [ws |-> [arena |-> Append(r.arena, project), hash |-> inserted],
                       res |-> Ok(id)]
                 ELSE [ws |-> [arena |-> r.arena, hash |-> inserted],
                       res |-> r.res]

\* Workspace::add_project: the workspace after the call and the value returned.
add_project(ws, project) ==
    LET id == Len(ws.arena)
        inserted == HashInsert(ws.hash, project.path, id)
    IN  IF project.path \in DOMAIN ws.hash
        THEN [ws |-> [arena |-> ws.arena, hash |-> inserted],
              res |-> PathAlreadyAdded(ws.hash[project.path])]
        ELSE LET r == RegisterDependents(ws.arena, project.dependencies.ids, 1, id)
             IN  IF r.res.ok
                 THEN [ws |-> [arena |-> Append(r.arena, project), hash |-> inserted],
                       res |-> Ok(id)]
                 ELSE [ws |-> [arena |-> r.arena, hash |-> inserted],
                       res |-> r.res]

\* MarkVisit that marks the project and pushes none of its dependents.
MarkVisit_NoPush(ar, rest, current_id) ==
    [arena |-> [ar EXCEPT ![current_id + 1].affected = TRUE], stack |-> rest]

\* MarkVisit that pushes the dependents of the project and does not set its
\* affected flag.
MarkVisit_NoFlag(ar, rest, current_id) ==
    [arena |-> ar, stack |-> rest \o ar[current_id + 1].dependents]

\* MarkVisit that moves the dependents of the project onto the stack and
\* leaves the project with none.
MarkVisit_Drain(ar, rest, current_id) ==
    LET project == ar[current_id + 1]
    IN  IF ~project.affected
        THEN [arena |-> [ar EXCEPT ![current_id + 1].affected = TRUE,
                                   ![current_id + 1].dependents = << >>],
              stack |-> rest \o project.dependents]
        ELSE [arena |-> ar, stack |-> rest]

\* MarkVisit that pushes only the first dependent of the project.
MarkVisit_FirstOnly(ar, rest, current_id) ==
    LET project == ar[current_id + 1]
    IN  IF ~project.affected
        THEN [arena |-> [ar EXCEPT ![current_id + 1].affected = TRUE],
              stack |-> IF project.dependents = << >>
                         THEN rest
                         ELSE Append(rest, project.dependents[1])]
        ELSE [arena |-> ar, stack |-> rest]

\* One iteration of the loop of mark_project_as_affected on the popped id
\* `current_id`, which denotes a slot: a project not yet affected is marked
\* and its dependents are pushed; `rest` is the stack after the pop.
MarkVisit(ar, rest, current_id) ==
    LET project == ar[current_id + 1]
    IN  IF ~project.affected
        THEN [arena |-> [ar EXCEPT ![current_id + 1].affected = TRUE],
              stack |-> rest \o project.dependents]
        ELSE [arena |-> ar, stack |-> rest]

\* The loop `while let Some(current_id) = stack.pop()`.
RECURSIVE MarkLoop(_, _)
MarkLoop(ar, stack) ==
    IF stack = << >>
    THEN [arena |-> ar, res |-> Ok(0)]
    ELSE LET current_id == stack[Len(stack)]
             rest == SubSeq(stack, 1, Len(stack) - 1)
         IN  IF current_id >= Len(ar)
             THEN [arena |-> ar, res |-> ProjectNotFound(current_id)]
             ELSE LET v == MarkVisit(ar, rest, current_id)
                  IN  MarkLoop(v.arena, v.stack)

\* mark_project_as_affected that takes an id with no slot for done.
mark_project_as_affected_SkipMissing(ar, id) ==
    IF id >= Len(ar)
    THEN [arena |-> ar, res |-> Ok(0)]
    ELSE MarkLoop(ar, <<id>>)

\* Workspace::mark_project_as_affected: the arena after the call and the
\* value returned (Ok(()) is Ok(0)).
mark_project_as_affected(ar, id) == MarkLoop(ar, <<id>>)

----------------------------------------------------------------------------
\* errors.rs: BuildWorkspaceError, and the Ok of add_project_to_workspace.

NoError == [ok |-> TRUE, kind |-> "Ok", id |-> 0, path |-> 0, witness |-> << >>,
            inner |-> Ok(0)]

ResolvedId(id) == [NoError EXCEPT !.id = id]

ErrorWhileAddingProject(path, err) ==
    [NoError EXCEPT !.ok = FALSE, !.kind = "ErrorWhileAddingProject",
                    !.path = path, !.inner = err]

ProjectDeclarationNotFound(path) ==
    [NoError EXCEPT !.ok = FALSE, !.kind = "ProjectDeclarationNotFound", !.path = path]

CyclicDependencyFound(witness) ==
    [NoError EXCEPT !.ok = FALSE, !.kind = "CyclicDependencyFound", !.witness = witness]

----------------------------------------------------------------------------
\* declarations.rs

\* Vec::contains
Contains(stack, path) == \E i \in 1 .. Len(stack) : stack[i] = path

\* CycleFound that takes the repeated path for resolved, with the id the
\* next project added will get.
CycleFound_Tolerated(w, stack, path) ==
    [ws |-> w, stack |-> stack, res |-> ResolvedId(Len(w.arena))]

\* CycleFound that reports the stack without the repeated path.
CycleFound_NoRepeat(w, stack, path) ==
    [ws |-> w, stack |-> stack, res |-> CyclicDependencyFound(stack)]

\* Memoized that never finds the path.
Memoized_Never(w, path) == << >>

\* The `if let Some(id) = workspace.get_id_by_path(path)` of
\* add_project_to_workspace: a path the workspace has an id for is not
\* resolved again.
Memoized(w, path) == get_id_by_path(w, path)

\* The branch `if stack.contains(path)` of add_project_to_workspace: the path
\* is pushed once more and the stack is the witness of the error.
CycleFound(w, stack, path) ==
    [ws |-> w, stack |-> Append(stack, path),
     res |-> CyclicDependencyFound(Append(stack, path))]

\* DeclarationMissing that reports the path the resolution started from.
DeclarationMissing_Root(w, stack, path) ==
    [ws |-> w, stack |-> stack, res |-> ProjectDeclarationNotFound(stack[1])]

\* The `ok_or(ProjectDeclarationNotFound(path))?` of add_project_to_workspace
\* for a path with no declaration; `stack` already holds the path.
DeclarationMissing(w, stack, path) ==
    [ws |-> w, stack |-> stack, res |-> ProjectDeclarationNotFound(path)]

\* The end of add_project_to_workspace: the project is built from the
\* declaration and the resolved ids, and added to the workspace.
AddResolved(w, stack, path, declaration, ids) ==
    LET dependencies == IF declaration.dependencies.some THEN Some(ids) ELSE None
        a == add_project(w, Project_new(path, declaration.name, dependencies))
    IN  IF a.res.ok
        THEN [ws |-> a.ws, stack |-> stack, res |-> ResolvedId(a.res.id)]
        ELSE [ws |-> a.ws, stack |-> stack,
              res |-> ErrorWhileAddingProject(path, a.res)]

RECURSIVE add_project_to_workspace(_, _, _, _)
RECURSIVE ResolveDependencies(_, _, _, _, _, _)

\* The loop `for dep in dependencies` of add_project_to_workspace, from index
\* i on, with the ids pushed so far; the `?` returns at the first error.
ResolveDependencies(projects, dependencies, i, w, stack, ids) ==
    IF i > Len(dependencies)
    THEN [ws |-> w, stack |-> stack, res |-> NoError, ids |-> ids]
    ELSE LET r == add_project_to_workspace(projects, dependencies[i], w, stack)
         IN  IF r.res.ok
             THEN ResolveDependencies(projects, dependencies, i + 1, r.ws, r.stack,
                                      Append(ids, r.res.id))
             ELSE [ws |-> r.ws, stack |-> r.stack, res |-> r.res, ids |-> ids]

\* WorkspaceDeclaration::add_project_to_workspace: the workspace and the stack
\* after the call, and the value returned.  The stack is pushed and never
\* popped.
add_project_to_workspace(projects, path, w, stack) ==
    IF Memoized(w, path) # << >>
    THEN [ws |-> w, stack |-> stack, res |-> ResolvedId(Memoized(w, path)[1])]
    ELSE IF Contains(stack, path)
    THEN CycleFound(w, stack, path)
    ELSE IF path \notin DOMAIN projects
    THEN DeclarationMissing(w, Append(stack, path), path)
    ELSE LET declaration == projects[path]
             d == IF declaration.dependencies.some
                  THEN ResolveDependencies(projects, declaration.dependencies.ids, 1,
                                           w, Append(stack, path), << >>)
                  ELSE [ws |-> w, stack |-> Append(stack, path), res |-> NoError,
                        ids |-> << >>]
         IN  IF d.res.ok
             THEN AddResolved(d.ws, d.stack, path, declaration, d.ids)
             ELSE [ws |-> d.ws, stack |-> d.stack, res |-> d.res]

\* The loop of build_workspace over the keys in the order `order`, from index
\* i on: the workspace built and NoError, or the first error (`?`).
RECURSIVE BuildLoop(_, _, _, _)
BuildLoop(projects, order, i, w) ==
    IF i > Len(order)
    THEN [ws |-> w, res |-> NoError]
    ELSE LET r == add_project_to_workspace(projects, order[i], w, << >>)
         IN  IF r.res.ok
             THEN BuildLoop(projects, order, i + 1, r.ws)
             ELSE [ws |-> r.ws, res |-> r.res]

\* WorkspaceDeclaration::build_workspace, when `self.projects.keys()` yields
\* the keys in the order `order`.
build_workspace(projects, order) == BuildLoop(projects, order, 1, Workspace_new)

\* The dependency lists of a declaration, of at most n paths.
DeclarationDependencies(n) == {None} \cup {Some(s) : s \in SeqsUpTo(Paths, n)}

\* WorkspaceDeclaration::add_project, for every path from p on: the
\* declaration maps over the paths p .. MaxPaths with at most n dependency
\* paths in all.  A path is declared or not.
RECURSIVE DeclarationsFrom(_, _)
DeclarationsFrom(p, n) ==
    IF p > MaxPaths
    THEN {<< >>}
    ELSE DeclarationsFrom(p + 1, n) \cup
         UNION {{(p :> [name |-> NameOf(p), dependencies |-> d]) @@ rest :
                    rest \in DeclarationsFrom(p + 1, n - Len(d.ids))} :
                d \in DeclarationDependencies(n)}

----------------------------------------------------------------------------
\* The calls a user of the Workspace makes.

ws == [arena |-> arena, hash |-> hash]

NoCall == [op |-> "none", path |-> 0, id |-> 0, res |-> Ok(0), lenBefore |-> 0,
           wasAdded |-> FALSE]

\* The dependency lists a caller hands to add_project, of at most n entries:
\* None, or Some of a list of ids (the resolver also passes Some(vec![])).
DependencyArgs(n) == {None} \cup {Some(s) : s \in SeqsUpTo(Ids, n) \ {<< >>}}

\* workspace.add_project(Project::new(path, name, dependencies))
AddProject(path, dependencies) ==
    /\ build.state = "none"
    /\ calls < MaxCalls
    /\ entries + Len(dependencies.ids) <= MaxDepIds
    /\ LET r == add_project(ws, Project_new(path, NameOf(path), dependencies))
       IN  /\ arena' = r.ws.arena
           /\ hash' = r.ws.hash
           /\ last' = [op |-> "add", path |-> path, id |-> 0, res |-> r.res,
                       lenBefore |-> Len(arena), wasAdded |-> path \in DOMAIN added]
           /\ added' = IF r.res.ok /\ path \notin DOMAIN added
                       THEN HashInsert(added, path, r.res.id)
                       ELSE added
    /\ calls' = calls + 1
    /\ entries' = entries + Len(dependencies.ids)
    /\ UNCHANGED <<marks, decls, pending, build, loop>>

\* workspace.mark_project_as_affected(id)
MarkProjectAsAffected(id) ==
    /\ build.state = "none"
    /\ LET r == mark_project_as_affected(arena, id)
       IN  /\ arena' = r.arena
           /\ last' = [op |-> "mark", path |-> 0, id |-> id, res |-> r.res,
                       lenBefore |-> Len(arena), wasAdded |-> FALSE]
    /\ UNCHANGED <<hash, added, calls, entries, marks, decls, pending, build, loop>>

NoBuild == [state |-> "none", err |-> NoError]

\* No mark_project_as_affected is being run step by step.
NoLoop == [pc |-> "idle", stack |-> << >>, res |-> Ok(0)]

Init ==
    /\ arena = Workspace_new.arena
    /\ hash = Workspace_new.hash
    /\ last = NoCall
    /\ added = << >>
    /\ calls = 0
    /\ entries = 0
    /\ marks = {}
    /\ decls = << >>
    /\ pending = {}
    /\ build = NoBuild
    /\ loop = NoLoop

Next ==
    \/ \E path \in Paths, dependencies \in DependencyArgs(MaxDepIds - entries) :
          AddProject(path, dependencies)
    \/ \E id \in Ids : MarkProjectAsAffected(id)

Spec == Init /\ [][Next]_vars

----------------------------------------------------------------------------
\* WorkspaceDeclaration::build_workspace, and the marking of the workspace
\* it returns.

\* One iteration of `for path in self.projects.keys()`: the keys of a HashMap
\* come in any order, so any key not yet visited may be the next one.  An
\* error ends build_workspace (`?`).
BuildStep(path) ==
    /\ build.state = "running"
    /\ path \in pending
    /\ LET r == add_project_to_workspace(decls, path, ws, << >>)
       IN  /\ arena' = r.ws.arena
           /\ hash' = r.ws.hash
           /\ last' = [op |-> "resolve", path |-> path, id |-> 0, res |-> Ok(0),
                       lenBefore |-> Len(arena), wasAdded |-> FALSE]
           /\ build' = IF r.res.ok
                       THEN build
                       ELSE [state |-> "err", err |-> r.res]
    /\ pending' = pending \ {path}
    /\ UNCHANGED <<added, calls, entries, marks, decls, loop>>

\* `Ok(workspace)`, after the last key.
BuildReturn ==
    /\ build.state = "running"
    /\ pending = {}
    /\ build' = [state |-> "ok", err |-> NoError]
    /\ UNCHANGED <<arena, hash, last, added, calls, entries, marks, decls, pending, loop>>

\* workspace.mark_project_as_affected(id) on the workspace build_workspace
\* returned.
MarkBuilt(id) ==
    /\ build.state = "ok"
    /\ LET r == mark_project_as_affected(arena, id)
       IN  /\ arena' = r.arena
           /\ last' = [op |-> "mark", path |-> 0, id |-> id, res |-> r.res,
                       lenBefore |-> Len(arena), wasAdded |-> FALSE]
           /\ marks' = IF r.res.ok THEN marks \cup {id} ELSE marks
    /\ UNCHANGED <<hash, added, calls, entries, decls, pending, build, loop>>

InitBuild ==
    /\ arena = Workspace_new.arena
    /\ hash = Workspace_new.hash
    /\ last = NoCall
    /\ added = << >>
    /\ calls = 0
    /\ entries = 0
    /\ marks = {}
    /\ decls \in DeclarationsFrom(1, MaxDepEntries)
    /\ pending = DOMAIN decls
    /\ build = [state |-> "running", err |-> NoError]
    /\ loop = NoLoop

NextBuild ==
    \/ \E path \in Paths : BuildStep(path)
    \/ BuildReturn
    \/ \E id \in Ids : MarkBuilt(id)

SpecBuild == InitBuild /\ [][NextBuild]_vars

----------------------------------------------------------------------------
\* Workspace::mark_project_as_affected, one iteration of its loop per step,
\* on any finite store: the dependents lists are any lists of ids, so they
\* may form cycles, repeat an id or name an id with no slot, and any project
\* may be affected already.

\* The stores of `n` projects whose dependents lists have at most `e` entries
\* in all.
RECURSIVE StoresOf(_, _)
StoresOf(n, e) ==
    IF n = 0
    THEN {<< >>}
    ELSE UNION {{Append(store, [Project_new(n, NameOf(n), None)
                                   EXCEPT !.dependents = d, !.affected = a]) :
                    store \in StoresOf(n - 1, e - Len(d)), a \in BOOLEAN} :
                d \in SeqsUpTo(0 .. MaxStore, e)}

Stores == UNION {StoresOf(n, MaxBackEdges) : n \in 0 .. MaxStore}

\* The stack holds the start id and, for each project marked, its dependents.
WorklistCap == MaxBackEdges + 1

\* `let mut stack = vec![id];`
InitMark ==
    /\ arena \in Stores
    /\ hash = [p \in 1 .. Len(arena) |-> p - 1]
    /\ last = NoCall
    /\ added = << >>
    /\ calls = 0
    /\ entries = 0
    /\ marks = {}
    /\ decls = << >>
    /\ pending = {}
    /\ build = NoBuild
    /\ \E id \in 0 .. MaxStore : loop = [pc |-> "loop", stack |-> <<id>>, res |-> Ok(0)]

\* One iteration of `while let Some(current_id) = stack.pop()`: an id with no
\* slot returns ProjectNotFound (`?`), any other is visited.
MarkIteration ==
    /\ loop.pc = "loop"
    /\ loop.stack # << >>
    /\ Len(loop.stack) <= WorklistCap
    /\ LET current_id == loop.stack[Len(loop.stack)]
           rest == SubSeq(loop.stack, 1, Len(loop.stack) - 1)
       IN  IF current_id >= Len(arena)
           THEN /\ loop' = [pc |-> "done", stack |-> rest,
                            res |-> ProjectNotFound(current_id)]
                /\ arena' = arena
           ELSE LET v == MarkVisit(arena, rest, current_id)
                IN  /\ loop' = [loop EXCEPT !.stack = v.stack]
                    /\ arena' = v.arena
    /\ UNCHANGED <<hash, last, added, calls, entries, marks, decls, pending, build>>

\* The stack is empty: `Ok(())`.
MarkReturn ==
    /\ loop.pc = "loop"
    /\ loop.stack = << >>
    /\ loop' = [loop EXCEPT !.pc = "done"]
    /\ UNCHANGED <<arena, hash, last, added, calls, entries, marks, decls, pending, build>>

NextMark ==
    \/ MarkIteration
    \/ MarkReturn

\* The call runs on one thread with nothing to wait for: the loop goes on
\* as long as it has an iteration to make.
SpecMark == InitMark /\ [][NextMark]_vars /\ WF_vars(NextMark)

----------------------------------------------------------------------------
\* Graph notions the properties are stated with.

\* The ids of the arena.
ArenaIds == 0 .. Len(arena) - 1

\* The elements of a sequence.
Elems(s) == {s[i] : i \in 1 .. Len(s)}

\* The project with id d lists the id p among its dependencies.
DependsOn(d, p) == p \in Elems(arena[d + 1].dependencies.ids)

\* S and every project that depends, directly or transitively, on a member
\* of S: for S = {x} this is {x} \cup transitive-dependents(x).
RECURSIVE WithDependents(_)
WithDependents(S) ==
    LET more == S \cup {d \in ArenaIds : \E p \in S : DependsOn(d, p)}
    IN  IF more = S THEN S ELSE WithDependents(more)

AffectedIds == {i \in ArenaIds : arena[i + 1].affected}

\* The dependency paths the declaration of p lists (none for an undeclared p).
DeclaredDependencies(p) ==
    IF p \in DOMAIN decls THEN Elems(decls[p].dependencies.ids) ELSE {}

\* S and every path reachable from S along declared dependencies.
RECURSIVE WithDependencies(_)
WithDependencies(S) ==
    LET more == S \cup UNION {DeclaredDependencies(p) : p \in S}
    IN  IF more = S THEN S ELSE WithDependencies(more)

\* Every dependency path of the declaration set is declared.
AllDeclared == \A p \in DOMAIN decls : DeclaredDependencies(p) \subseteq DOMAIN decls

\* The path-level dependency relation has a cycle (a self-dependency is one).
Cyclic == \E p \in DOMAIN decls : p \in WithDependencies(DeclaredDependencies(p))

\* build_workspace cannot return Ok any more: it failed, or has keys to visit.
NotOk == build.state = "err" \/ (build.state = "running" /\ pending # {})

\* build_workspace has returned.
Returned == build.state \in {"ok", "err"}

\* The orders in which a HashMap may yield the keys S.
RECURSIVE Orders(_)
Orders(S) ==
    IF S = {}
    THEN {<< >>}
    ELSE UNION {{<<p>> \o o : o \in Orders(S \ {p})} : p \in S}

\* The sequence s without its i-th element.
Without(s, i) == SubSeq(s, 1, i - 1) \o SubSeq(s, i + 1, Len(s))

\* The outcomes of the marking loop when the next id is taken from any place
\* of the worklist, not only from its end.
RECURSIVE MarkAnyOrder(_, _)
MarkAnyOrder(ar, work) ==
    IF work = << >>
    THEN {[arena |-> ar, res |-> Ok(0)]}
    ELSE UNION {IF work[i] >= Len(ar)
                THEN {[arena |-> ar, res |-> ProjectNotFound(work[i])]}
                ELSE LET v == MarkVisit(ar, Without(work, i), work[i])
                     IN  MarkAnyOrder(v.arena, v.stack) :
                i \in 1 .. Len(work)}

----------------------------------------------------------------------------
\* Properties of Workspace::add_project and mark_project_as_affected (Spec).

\* C1: a call of add_project whose path an earlier call added successfully
\* fails with PathAlreadyAdded carrying the id that successful call returned,
\* and leaves len() as it was.
C1_DuplicateCarriesOriginalId ==
    (last.op = "add" /\ last.wasAdded) =>
        /\ last.res = PathAlreadyAdded(added[last.path])
        /\ Len(arena) = last.lenBefore

\* C2: the path index is exactly the map of the successful adds, so it is
\* injective and get_project_by_path(p) returns a project whose path is p.
C2_IndexIsSuccessfulAdds ==
    /\ hash = added
    /\ \A p, q \in DOMAIN hash : hash[p] = hash[q] => p = q
    /\ \A p \in DOMAIN hash :
          /\ get_project_by_path(ws, p) # << >>
          /\ get_project_by_path(ws, p)[1].path = p

\* C3: every id in a stored project's dependents denotes an arena slot whose
\* project lists that project among its dependencies.
C3_NoOrphanBackEdge ==
    \A p \in ArenaIds : \A d \in Elems(arena[p + 1].dependents) :
        d \in ArenaIds /\ DependsOn(d, p)

\* C10: in any workspace state, marking an id twice in a row returns the same
\* value and leaves the same workspace as marking it once.
C10_MarkIdempotent ==
    \A id \in Ids :
        LET once == mark_project_as_affected(arena, id)
            twice == mark_project_as_affected(once.arena, id)
        IN  twice.res = once.res /\ twice.arena = once.arena

\* C11: in a store built by add_project calls, marking an id that denotes a
\* slot never returns ProjectNotFound.
C11_MarkOfSlotNeverFails ==
    \A id \in ArenaIds : mark_project_as_affected(arena, id).res.ok

\* C12: marking an id that denotes no slot returns ProjectNotFound(id) and
\* leaves every project as it was.
C12_MarkOfMissingIdFails ==
    /\ \A id \in Ids \ ArenaIds :
          mark_project_as_affected(arena, id) =
              [arena |-> arena, res |-> ProjectNotFound(id)]
    /\ (last.op = "mark" /\ last.id >= last.lenBefore) =>
          last.res = ProjectNotFound(last.id)

C12_Witness ==
    /\ last.op = "mark"
    /\ last.id >= Len(arena)
    /\ last.res = ProjectNotFound(last.id)
    /\ AffectedIds # {}
    /\ ArenaIds \ AffectedIds # {}

\* C13: a successful add_project returns the len() of before the call, stores
\* the project at that index, increases len() by one, and no two successful
\* calls return the same id.
C13_IdIsIndex ==
    /\ (last.op = "add" /\ last.res.ok) =>
          /\ last.res.id = last.lenBefore
          /\ len(ws) = last.lenBefore + 1
          /\ get_project(ws, last.res.id) =
                <<Project_new(last.path, NameOf(last.path),
                              arena[last.res.id + 1].dependencies)>>
          /\ last.path \in DOMAIN added /\ added[last.path] = last.res.id
    /\ \A p, q \in DOMAIN added : added[p] = added[q] => p = q

C13_Witness ==
    /\ last.op = "add" /\ last.res.ok
    /\ last.res.id = 1
    /\ calls = 3

\* C16: mark_project_as_affected changes nothing but affected flags, and no
\* call ever takes an affected flag from true back to false.
C16_MarkFrame ==
    [][/\ Len(arena') >= Len(arena)
       /\ \A i \in 1 .. Len(arena) : arena[i].affected => arena'[i].affected
       /\ last'.op = "mark" =>
             /\ hash' = hash
             /\ Len(arena') = Len(arena)
             /\ \A i \in 1 .. Len(arena) :
                   [arena'[i] EXCEPT !.affected = arena[i].affected] = arena[i]]_vars

C16_Witness ==
    /\ last.op = "mark" /\ last.res.ok
    /\ \E p \in AffectedIds : arena[p + 1].dependents # << >>
    /\ ArenaIds \ AffectedIds # {}

\* C18: every dependency id of a stored project is smaller than the
\* project's id and every dependent id is larger, so the graph is acyclic.
C18_EdgesFollowIdOrder ==
    \A p \in ArenaIds :
        /\ \A d \in Elems(arena[p + 1].dependencies.ids) : d < p
        /\ \A d \in Elems(arena[p + 1].dependents) : d > p

C18_Witness ==
    /\ \E p \in ArenaIds : arena[p + 1].dependencies.ids # << >>
    /\ \E p \in ArenaIds : Len(arena[p + 1].dependents) = 2

----------------------------------------------------------------------------
\* Properties of build_workspace and of the workspace it returns (SpecBuild).

\* C4: on a workspace build_workspace returned, the affected projects are
\* exactly the successfully marked ids and their transitive dependents.
C4_AffectedIsClosureOfMarks ==
    build.state = "ok" => AffectedIds = WithDependents(marks)

C4_Witness ==
    /\ build.state = "ok"
    /\ marks # {}
    /\ AffectedIds \ marks # {}
    /\ ArenaIds \ AffectedIds # {}

\* C5: a declaration set whose dependency paths are all declared and whose
\* dependency relation has a cycle makes build_workspace fail with
\* CyclicDependencyFound, whatever the order of the keys.
C5_CycleIsFound ==
    (AllDeclared /\ Cyclic) =>
        /\ NotOk
        /\ build.state = "err" => build.err.kind = "CyclicDependencyFound"

C5_Witness ==
    /\ AllDeclared /\ Cyclic
    /\ build.state = "err"
    /\ build.err.kind = "CyclicDependencyFound"
    /\ Len(arena) > 0

\* C6, as claimed: the witness of CyclicDependencyFound starts and ends at
\* the same path.
C6_WitnessStartsAndEndsAtSamePath ==
    (build.state = "err" /\ build.err.kind = "CyclicDependencyFound") =>
        build.err.witness[1] = build.err.witness[Len(build.err.witness)]

\* C6, amended: the witness of CyclicDependencyFound starts at the key the
\* loop of build_workspace was resolving and ends at a path that occurs
\* earlier in the witness.
C6_WitnessStartsAtRootEndsAtRepeat ==
    (build.state = "err" /\ build.err.kind = "CyclicDependencyFound") =>
        LET w == build.err.witness
        IN  /\ Len(w) >= 2
            /\ w[1] = last.path
            /\ \E i \in 1 .. Len(w) - 1 : w[i] = w[Len(w)]

C6_Witness ==
    /\ build.state = "err"
    /\ build.err.kind = "CyclicDependencyFound"
    /\ build.err.witness[1] # build.err.witness[Len(build.err.witness)]
    /\ Len(build.err.witness) = 3

\* C7: an acyclic declaration set whose dependency paths are all declared
\* is resolved successfully in every order of the keys, into a workspace
\* with one project per declared path, found by its path, with the declared
\* name.
C7_AcyclicResolves ==
    (AllDeclared /\ ~Cyclic) =>
        /\ build.state # "err"
        /\ build.state = "ok" =>
              /\ len(ws) = Cardinality(DOMAIN decls)
              /\ \A p \in DOMAIN decls :
                    /\ get_project_by_path(ws, p) # << >>
                    /\ get_project_by_path(ws, p)[1].path = p
                    /\ get_project_by_path(ws, p)[1].name = decls[p].name

C7_Witness ==
    /\ AllDeclared /\ ~Cyclic
    /\ build.state = "ok"
    /\ len(ws) = 3
    /\ \E p \in ArenaIds : Cardinality(Elems(arena[p + 1].dependents)) = 2

\* C8: in a workspace build_workspace returned, dependents is the transpose
\* of dependencies and every id in either denotes a project of the arena.
C8_DependentsIsTranspose ==
    build.state = "ok" =>
        /\ \A p, d \in ArenaIds :
              d \in Elems(arena[p + 1].dependents) <=> DependsOn(d, p)
        /\ \A p \in ArenaIds :
              /\ Elems(arena[p + 1].dependents) \subseteq ArenaIds
              /\ Elems(arena[p + 1].dependencies.ids) \subseteq ArenaIds

C8_Witness ==
    /\ build.state = "ok"
    /\ \E p, d \in ArenaIds : d \in Elems(arena[p + 1].dependents) /\ DependsOn(d, p)
    /\ \E p, d \in ArenaIds : d \notin Elems(arena[p + 1].dependents) /\ p # d

\* C9: an acyclic declaration set in which a declared project lists a path
\* with no declaration makes build_workspace fail with
\* ProjectDeclarationNotFound carrying such a path, whatever the order of
\* the keys.
C9_MissingDeclarationIsReported ==
    (~AllDeclared /\ ~Cyclic) =>
        /\ NotOk
        /\ build.state = "err" =>
              /\ build.err.kind = "ProjectDeclarationNotFound"
              /\ build.err.path \notin DOMAIN decls
              /\ \E p \in DOMAIN decls : build.err.path \in DeclaredDependencies(p)

C9_Witness ==
    /\ ~AllDeclared /\ ~Cyclic
    /\ build.state = "err"
    /\ build.err.kind = "ProjectDeclarationNotFound"
    /\ build.err.path # last.path
    /\ Len(arena) > 0

\* C14: the witness of CyclicDependencyFound is a chain of declared
\* dependency edges, and none of its paths has an id in the store.
C14_WitnessIsUnresolvedChain ==
    (build.state = "err" /\ build.err.kind = "CyclicDependencyFound") =>
        LET w == build.err.witness
        IN  /\ \A i \in 1 .. Len(w) - 1 : w[i + 1] \in DeclaredDependencies(w[i])
            /\ \A i \in 1 .. Len(w) : get_id_by_path(ws, w[i]) = << >>

\* C17: build_workspace never fails with ErrorWhileAddingProject: every
\* add_project the resolver issues succeeds.
C17_ResolverAddsSucceed ==
    build.err.kind # "ErrorWhileAddingProject"

C17_Witness ==
    /\ build.state = "ok"
    /\ len(ws) = 3
    /\ \E p \in ArenaIds : Len(arena[p + 1].dependencies.ids) = 2

\* C19: the outcome of build_workspace (Ok or the error, with its payload)
\* is the same for every order of the keys of the declaration map.
C19_OutcomeIsOrderIndependent ==
    Returned =>
        \A order \in Orders(DOMAIN decls) :
            build_workspace(decls, order).res = build.err

\* C20: on a workspace build_workspace returned, marks commute, the result
\* of a mark does not depend on the order the worklist is processed in, and
\* between calls the affected set is closed under dependents.
C20_MarksCommute ==
    build.state = "ok" =>
        /\ \A x, y \in Ids :
              mark_project_as_affected(mark_project_as_affected(arena, x).arena, y).arena
                  = mark_project_as_affected(mark_project_as_affected(arena, y).arena, x).arena
        /\ \A x \in Ids :
              MarkAnyOrder(arena, <<x>>) = {mark_project_as_affected(arena, x)}
        /\ \A p \in AffectedIds : Elems(arena[p + 1].dependents) \subseteq AffectedIds

C20_Witness ==
    /\ build.state = "ok"
    /\ Cardinality(marks) = 2
    /\ \E p \in AffectedIds : Cardinality(Elems(arena[p + 1].dependents)) = 2
    /\ ArenaIds \ marks # {}

----------------------------------------------------------------------------
\* Properties of the marking loop on any finite store (SpecMark).

\* C15: mark_project_as_affected terminates on every finite store and for
\* every start id: the worklist empties or the call returns an error.
C15_MarkTerminates == <>(loop.pc = "done")

C15_Witness ==
    /\ loop.pc = "done"
    /\ loop.res.ok
    /\ \E p, q \in ArenaIds :
          /\ p # q
          /\ q \in Elems(arena[p + 1].dependents)
          /\ p \in Elems(arena[q + 1].dependents)
          /\ arena[p + 1].affected /\ arena[q + 1].affected

====
